---- MODULE Spec2Model ----
(***************************************************************************)
(* RugbyTrackPro: the in-memory storage and its REST routes (game players, *)
(* substitutions, stats), the TimerDisplay component and the game store's  *)
(* timer.                                                                  *)
(***************************************************************************)
EXTENDS Integers, Sequences, FiniteSets, TLC

\* ------------------------------------------------------------------------
\* Bounds of the model
\* ------------------------------------------------------------------------
MaxGamePlayers == 3
MaxStats == 1
MaxEvents == 2
MaxTicks == 62
MaxLineup == 1
MaxGames == 1

Games == {1, 2}
Players == {1, 2}
Times == {0, 1}
StatTypeNames == {"Try", "Tackles"}

\* a nullable column holding no value (null / undefined)
Null == -1

\* ------------------------------------------------------------------------
\* State
\* ------------------------------------------------------------------------
VARIABLES
    games,                \* MemStorage.games, in insertion (= id) order
    currentGameId,        \* MemStorage.currentGameId
    gamePlayers,          \* MemStorage.gamePlayers, in insertion (= id) order
    currentGamePlayerId,  \* MemStorage.currentGamePlayerId
    stats,                \* MemStorage.stats, in insertion (= id) order
    currentStatId,        \* MemStorage.currentStatId
    pending,              \* POST /substitutions suspended at its await
    last,                 \* the last HTTP response sent
    agGame,               \* ActiveGame: the game query's data (NoGame while loading)
    agRosterLoading,      \* ActiveGame: isLoadingGamePlayers || isLoadingStatTypes
    agTimer,              \* ActiveGame: timerState
    agSelectedPlayer,     \* ActiveGame: selectedPlayer (NoSelection for null)
    agRecording,          \* ActiveGame: recordStatMutation in flight, with its answer
    agActivityLogs,       \* ActiveGame: activityLogs, most recent first
    agGameStats,          \* ActiveGame: gameStats, total per player id and stat type
    tdMounted,            \* TimerDisplay is mounted
    tdTimer,              \* TimerDisplay: timerState
    tdIntervals,          \* TimerDisplay: the setInterval timers scheduled
    tdSeenRunning,        \* isRunning as of the last run of the tick effect
    tdExpiryDue,          \* the display/expiry effect is due (its deps changed)
    gameEndCalls,         \* calls of onGameEnd since the page opened
    expirySignals,        \* callbacks invoked by the expiry effect in this period
    ticksThisPeriod,      \* interval ticks in this period
    currentGame,          \* useGameStore.currentGame (NoGame for null)
    isGameActive,         \* useGameStore.isGameActive
    timer,                \* useGameStore.timer
    gameStats,            \* useGameStore.gameStats: total per player and stat type
    activityLog,          \* useGameStore.activityLog: the recorded stats, newest first
    recordInFlight,       \* recordStat suspended at its await of POST /api/stats
    loadFetched,          \* loadGameData suspended after its fetches, with their answers
    lastAdvance           \* the last clock operation, if it was a next-half call

gameVars == <<games, currentGameId>>

serverVars == <<gameVars, gamePlayers, currentGamePlayerId, stats, currentStatId, pending, last>>

pageVars == <<agGame, agRosterLoading, agTimer>>

timerVars == <<tdMounted, tdTimer, tdIntervals, tdSeenRunning, tdExpiryDue,
               gameEndCalls, expirySignals, ticksThisPeriod>>

storeVars == <<currentGame, isGameActive, timer, gameStats, activityLog>>

flightVars == <<recordInFlight, loadFetched>>

liveVars == <<agSelectedPlayer, agRecording, agActivityLogs, agGameStats>>

vars == <<serverVars, pageVars, liveVars, timerVars, storeVars, flightVars, lastAdvance>>

clientVars == <<pageVars, liveVars, timerVars, storeVars, flightVars, lastAdvance>>

\* ------------------------------------------------------------------------
\* MemStorage
\* ------------------------------------------------------------------------

\* JavaScript !v for a value that is a number, null or undefined
Falsy(v) == v = Null \/ v = 0

\* MemStorage.createGame (of a game's columns the model keeps the clock's and the score)
createGame(gs, nextId, insertGame) ==
    [games |-> Append(gs, [id |-> nextId,
                           halfLength |-> insertGame.halfLength,
                           numberOfHalves |-> insertGame.numberOfHalves,
                           homeScore |-> 0,
                           isCompleted |-> FALSE]),
     currentGameId |-> nextId + 1]

\* this.games.get(id): the index of the game, 0 if undefined
FindGame(gs, id) ==
    IF \E i \in DOMAIN gs : gs[i].id = id
    THEN CHOOSE i \in DOMAIN gs : gs[i].id = id
    ELSE 0

\* MemStorage.updateGame with a Partial<InsertGame>
updateGame(gs, id, game) ==
    LET i == FindGame(gs, id)
    IN IF i = 0 THEN [found |-> FALSE, games |-> gs]
       ELSE [found |-> TRUE,
             games |-> [gs EXCEPT ![i].halfLength = game.halfLength,
                                  ![i].numberOfHalves = game.numberOfHalves]]

\* MemStorage.completeGame
completeGame(gs, id, homeScore) ==
    LET i == FindGame(gs, id)
    IN IF i = 0 THEN [found |-> FALSE, games |-> gs]
       ELSE [found |-> TRUE,
             games |-> [gs EXCEPT ![i].homeScore = homeScore,
                                  ![i].isCompleted = TRUE]]

getGamePlayers(gps, gameId) == SelectSeq(gps, LAMBDA gp : gp.gameId = gameId)

createGamePlayer(gps, nextId, insert) ==
    [gamePlayers |-> Append(gps, [id |-> nextId,
                                  gameId |-> insert.gameId,
                                  playerId |-> insert.playerId,
                                  number |-> insert.number,
                                  position |-> insert.position,
                                  isStarter |-> insert.isStarter,
                                  startTime |-> insert.startTime,
                                  endTime |-> insert.endTime]),
     currentGamePlayerId |-> nextId + 1]

\* Array.from(values()).find(...): the first matching record in id order, 0 if none
FindOutPlayerRecord(gps, gameId, outPlayerId) ==
    LET matches == {i \in 1..Len(gps) :
                        /\ gps[i].gameId = gameId
                        /\ gps[i].playerId = outPlayerId
                        /\ Falsy(gps[i].endTime)}
    IN IF matches = {} THEN 0
       ELSE CHOOSE i \in matches : \A j \in matches : i <= j

substitutePlayerExitOnly(gps, nextId, gameId, outPlayerId, inPlayerId, time) ==
    LET i == FindOutPlayerRecord(gps, gameId, outPlayerId)
    IN IF i = 0
       THEN [ok |-> FALSE, gamePlayers |-> gps, currentGamePlayerId |-> nextId]
       ELSE [ok |-> TRUE, gamePlayers |-> [gps EXCEPT ![i].endTime = time],
             currentGamePlayerId |-> nextId]

substitutePlayer(gps, nextId, gameId, outPlayerId, inPlayerId, time) ==
    LET i == FindOutPlayerRecord(gps, gameId, outPlayerId)
    IN IF i = 0
       THEN [ok |-> FALSE, gamePlayers |-> gps, currentGamePlayerId |-> nextId]
       ELSE LET exited == [gps EXCEPT ![i].endTime = time]
                created == createGamePlayer(exited, nextId,
                               [gameId |-> gameId,
                                playerId |-> inPlayerId,
                                number |-> gps[i].number,
                                position |-> gps[i].position,
                                isStarter |-> FALSE,
                                startTime |-> time,
                                endTime |-> Null])
            IN [ok |-> TRUE, gamePlayers |-> created.gamePlayers,
                currentGamePlayerId |-> created.currentGamePlayerId]

\* createStat, were it to key the record by its player
createStatReplacing(sts, nextId, insert) ==
    [stats |-> <<[id |-> nextId,
                  gameId |-> insert.gameId,
                  playerId |-> insert.playerId,
                  statType |-> insert.statType,
                  value |-> insert.value,
                  gameTime |-> insert.gameTime,
                  period |-> insert.period]>>,
     currentStatId |-> nextId + 1]

getGameStats(sts, gameId) == SelectSeq(sts, LAMBDA s : s.gameId = gameId)

createStat(sts, nextId, insert) ==
    [stats |-> Append(sts, [id |-> nextId,
                            gameId |-> insert.gameId,
                            playerId |-> insert.playerId,
                            statType |-> insert.statType,
                            value |-> insert.value,
                            gameTime |-> insert.gameTime,
                            period |-> insert.period]),
     currentStatId |-> nextId + 1]

\* ------------------------------------------------------------------------
\* PlayerSetup (client): the body savePlayersMutation posts for one position
\* ------------------------------------------------------------------------
Shirts == {9, 14}

rugbyPositions(number) ==
    CASE number = 1 -> "Fullback"
      [] number = 2 -> "Right Wing"
      [] number = 3 -> "Right Centre"
      [] number = 4 -> "Left Centre"
      [] number = 5 -> "Left Wing"
      [] number = 6 -> "Stand Off"
      [] number = 7 -> "Scrum Half / Half Back"
      [] number \in {8, 10} -> "Prop"
      [] number = 9 -> "Hooker"
      [] number \in {11, 12} -> "Second Row"
      [] number = 13 -> "Loose Forward"
      [] number \in 14..17 -> "Substitute"
      [] OTHER -> "Unknown"

playerAssignment(gameId, positionNumber, playerId) ==
    [gameId |-> gameId,
     playerId |-> playerId,
     number |-> positionNumber,
     position |-> rugbyPositions(positionNumber),
     isStarter |-> positionNumber <= 13,
     startTime |-> Null,
     endTime |-> Null]

\* ------------------------------------------------------------------------
\* Routes
\* ------------------------------------------------------------------------
Response(op, status, body) == [op |-> op, status |-> status, body |-> body]

\* insertGamePlayerSchema.safeParse: the required columns hold a value
ValidGamePlayer(body) ==
    body.gameId # Null /\ body.playerId # Null /\ body.number # Null

\* insertStatSchema.safeParse: the required columns hold a value
ValidStat(body) ==
    body.gameId # Null /\ body.playerId # Null /\ body.statType # ""

\* GET /games/:id/players
GetGamePlayersRoute(gameId) ==
    /\ last' = Response("GET players", 200, getGamePlayers(gamePlayers, gameId))
    /\ UNCHANGED <<gameVars, gamePlayers, currentGamePlayerId, stats, currentStatId, pending>>

\* POST /games/:id/players
PostGamePlayerRoute(gameId, body) ==
    IF ~ValidGamePlayer(body)
    THEN /\ last' = Response("POST players", 400, <<>>)
         /\ UNCHANGED <<gameVars, gamePlayers, currentGamePlayerId, stats, currentStatId, pending>>
    ELSE /\ Len(gamePlayers) < MaxGamePlayers
         /\ LET r == createGamePlayer(gamePlayers, currentGamePlayerId, body)
            IN /\ gamePlayers' = r.gamePlayers
               /\ currentGamePlayerId' = r.currentGamePlayerId
               /\ last' = Response("POST players", 201,
                                   <<r.gamePlayers[Len(r.gamePlayers)]>>)
         /\ UNCHANGED <<gameVars, stats, currentStatId, pending>>

\* POST /games/:id/substitutions, up to the await of storage.substitutePlayer:
\* the body of substitutePlayer (and of the createGamePlayer it calls) holds no
\* await before its last statement, so it runs within this one step.
SubstitutionsCall(gameId, outPlayerId, inPlayerId, time) ==
    /\ pending = "none"
    /\ LET r == substitutePlayer(gamePlayers, currentGamePlayerId,
                                 gameId, outPlayerId, inPlayerId, time)
       IN /\ r.ok => Len(gamePlayers) < MaxGamePlayers
          /\ gamePlayers' = r.gamePlayers
          /\ currentGamePlayerId' = r.currentGamePlayerId
          /\ pending' = IF r.ok THEN "ok" ELSE "fail"
    /\ UNCHANGED <<gameVars, stats, currentStatId, last>>

\* POST /games/:id/substitutions, resumed after the await: the response
SubstitutionsRespond ==
    /\ pending # "none"
    /\ last' = Response("POST substitutions",
                        IF pending = "ok" THEN 200 ELSE 400, <<>>)
    /\ pending' = "none"
    /\ UNCHANGED <<gameVars, gamePlayers, currentGamePlayerId, stats, currentStatId>>
    /\ UNCHANGED clientVars

\* GET /games/:id/stats
GetGameStatsRoute(gameId) ==
    /\ last' = Response("GET stats", 200, getGameStats(stats, gameId))
    /\ UNCHANGED <<gameVars, gamePlayers, currentGamePlayerId, stats, currentStatId, pending>>

\* POST /stats
PostStatRoute(body) ==
    IF ~ValidStat(body)
    THEN /\ last' = Response("POST stats", 400, <<>>)
         /\ UNCHANGED <<gameVars, gamePlayers, currentGamePlayerId, stats, currentStatId, pending>>
    ELSE /\ LET r == createStat(stats, currentStatId, body)
            IN /\ stats' = r.stats
               /\ currentStatId' = r.currentStatId
               /\ last' = Response("POST stats", 201, <<r.stats[Len(r.stats)]>>)
         /\ UNCHANGED <<gameVars, gamePlayers, currentGamePlayerId, pending>>

\* POST /games
PostGameRoute(body) ==
    /\ Len(games) < MaxGames
    /\ LET r == createGame(games, currentGameId, body)
       IN /\ games' = r.games
          /\ currentGameId' = r.currentGameId
          /\ last' = Response("POST games", 201, <<r.games[Len(r.games)]>>)
    /\ UNCHANGED <<gamePlayers, currentGamePlayerId, stats, currentStatId, pending>>

\* PUT /games/:id
PutGameRoute(id, body) ==
    /\ LET r == updateGame(games, id, body)
       IN /\ games' = r.games
          /\ last' = IF r.found
                     THEN Response("PUT games", 200, <<r.games[FindGame(r.games, id)]>>)
                     ELSE Response("PUT games", 404, <<>>)
    /\ UNCHANGED <<currentGameId, gamePlayers, currentGamePlayerId, stats, currentStatId,
                   pending>>

\* POST /games/:id/complete
CompleteGameRoute(id, homeScore) ==
    /\ LET r == completeGame(games, id, homeScore)
       IN /\ games' = r.games
          /\ last' = IF r.found
                     THEN Response("POST complete", 200, <<r.games[FindGame(r.games, id)]>>)
                     ELSE Response("POST complete", 404, <<>>)
    /\ UNCHANGED <<currentGameId, gamePlayers, currentGamePlayerId, stats, currentStatId,
                   pending>>

\* the request bodies of the model
GameBodies == {[halfLength |-> 1, numberOfHalves |-> 2],
               [halfLength |-> 1, numberOfHalves |-> 4]}

Scores == {0, 5}

GamePlayerBodies(gameId) ==
    {playerAssignment(gameId, n, p) : n \in Shirts, p \in Players \cup {Null}}

StatBodies ==
    [gameId : Games, playerId : Players \cup {Null}, statType : StatTypeNames,
     value : {1}, gameTime : Times, period : {1}]

InitServer ==
    /\ games = <<>>
    /\ currentGameId = 1
    /\ gamePlayers = <<>>
    /\ currentGamePlayerId = 1
    /\ stats = <<>>
    /\ currentStatId = 1
    /\ pending = "none"
    /\ last = Response("none", 0, <<>>)

LineupSave ==
    /\ \E g \in Games : \E body \in GamePlayerBodies(g) : PostGamePlayerRoute(g, body)
    /\ UNCHANGED clientVars

Substitute ==
    /\ \E g \in Games, o \in Players, i \in Players, t \in Times : SubstitutionsCall(g, o, i, t)
    /\ UNCHANGED clientVars

ReadRoster ==
    /\ \E g \in Games : GetGamePlayersRoute(g)
    /\ UNCHANGED clientVars

Record ==
    /\ Len(stats) < MaxStats
    /\ \E body \in StatBodies : PostStatRoute(body)
    /\ UNCHANGED clientVars

ReadLedger ==
    /\ \E g \in Games : GetGameStatsRoute(g)
    /\ UNCHANGED clientVars

\* stats as the match page posts them, for one player
EventBodies ==
    [gameId : Games, playerId : {1}, statType : StatTypeNames,
     value : {1}, gameTime : {0}, period : {1}]

RecordEvent ==
    /\ Len(stats) < MaxEvents
    /\ \E body \in EventBodies : PostStatRoute(body)
    /\ UNCHANGED clientVars

CreateGame ==
    /\ \E body \in GameBodies : PostGameRoute(body)
    /\ UNCHANGED clientVars

UpdateGame ==
    /\ \E g \in Games, body \in GameBodies : PutGameRoute(g, body)
    /\ UNCHANGED clientVars

CompleteGame ==
    /\ \E g \in Games, homeScore \in Scores : CompleteGameRoute(g, homeScore)
    /\ UNCHANGED clientVars


\* ------------------------------------------------------------------------
\* ActiveGame page and TimerDisplay
\* ------------------------------------------------------------------------
NoGame == [id |-> 0, halfLength |-> 0, numberOfHalves |-> 0, homeScore |-> 0]

\* no request in flight
NoRequest == [none |-> TRUE]

\* apiRequest(method, url, data): its promise resolves with the response
\* when the response is ok (a 2xx status) and rejects otherwise; status 0
\* stands for a request that got no response (fetch rejects)
apiRequestResolves(status) == status \in 200..299

\* the outcomes of a POST /api/stats that fails on the way: no response, or
\* the route's catch branch (createStat threw)
FailureStatuses == {0, 500}

\* selectedPlayer: null
NoSelection == [id |-> 0]

\* the stat types of the page: those of the buttons and the one with a value
PageStatTypeNames == StatTypeNames \cup {"Meters"}

\* gameStats: {} holds no total; a total that is absent reads as 0
agTotalKeys == ((1..MaxGamePlayers) \cup Players) \X PageStatTypeNames

agEmptyGameStats == [k \in agTotalKeys |-> 0]

\* the games of the model: halves of one minute, two halves or four quarters
GameData == {[id |-> 1, halfLength |-> 1, numberOfHalves |-> 2, homeScore |-> 0],
             [id |-> 2, halfLength |-> 1, numberOfHalves |-> 4, homeScore |-> 0]}

TimerState(isRunning, currentHalf, currentTime, halfLength, numberOfHalves) ==
    [isRunning |-> isRunning, currentHalf |-> currentHalf, currentTime |-> currentTime,
     halfLength |-> halfLength, numberOfHalves |-> numberOfHalves]

\* what lastAdvance records of a next-half call: on which clock, from which state
Advance(clock, before) == [clock |-> clock, before |-> before]

NoAdvance == Advance("none", TimerState(FALSE, 0, 0, 0, 0))

\* ActiveGame: useState<TimerState>({...})
PlaceholderHalfLength == 40
PlaceholderHalves == 2
agInitialTimer == TimerState(FALSE, 1, 0, PlaceholderHalfLength, PlaceholderHalves)

Max(a, b) == IF a >= b THEN a ELSE b

\* ActiveGame: the effect on [game]
agApplyGame(prev, game) ==
    [prev EXCEPT !.currentTime = game.halfLength * 60,
                 !.halfLength = game.halfLength,
                 !.numberOfHalves = game.numberOfHalves]

\* TimerDisplay mounts: useState(initialState), then both effects run on a
\* stopped clock (no interval is set, nothing expires)
MountTimerDisplay(initialState) ==
    /\ tdMounted' = TRUE
    /\ tdTimer' = initialState
    /\ tdIntervals' = 0
    /\ tdSeenRunning' = initialState.isRunning
    /\ tdExpiryDue' = FALSE
    /\ UNCHANGED <<gameEndCalls, expirySignals, ticksThisPeriod>>

UnmountKeepsInterval ==
    /\ tdMounted' = FALSE
    /\ UNCHANGED tdIntervals

\* the page is left (navigate or reload): TimerDisplay unmounts and the cleanup
\* of the tick effect clears its interval
UnmountTimerDisplay ==
    /\ tdMounted' = FALSE
    /\ tdIntervals' = 0

\* the game query resolves; ActiveGame renders (TimerDisplay mounts in this
\* render when the other queries are loaded) and then its effect on [game] runs
GameQueryLoaded(game) ==
    /\ agGame = NoGame
    /\ agGame' = game
    /\ agTimer' = agApplyGame(agTimer, game)
    /\ IF ~agRosterLoading
       THEN MountTimerDisplay(agTimer)
       ELSE UNCHANGED timerVars
    /\ UNCHANGED <<agRosterLoading, liveVars, serverVars, storeVars, flightVars, lastAdvance>>

\* the game players and stat types queries resolve
RosterQueriesLoaded ==
    /\ agRosterLoading
    /\ agRosterLoading' = FALSE
    /\ IF agGame # NoGame
       THEN MountTimerDisplay(agTimer)
       ELSE UNCHANGED timerVars
    /\ UNCHANGED <<agGame, agTimer, liveVars, serverVars, storeVars, flightVars, lastAdvance>>

notTimerVars == <<serverVars, pageVars, liveVars, storeVars, flightVars>>

notStoreVars == <<serverVars, pageVars, liveVars, timerVars, flightVars>>

\* passive effects of the last render are still to run
EffectsDue == tdMounted /\ (tdExpiryDue \/ tdSeenRunning # tdTimer.isRunning)

\* the interval callback: setTimerState(prev => ...)
tickUpdaterNoFloor(prev) == [prev EXCEPT !.currentTime = prev.currentTime - 1]

tickUpdater(prev) == [prev EXCEPT !.currentTime = Max(0, prev.currentTime - 1)]

Tick ==
    /\ tdMounted
    /\ ~EffectsDue
    /\ tdIntervals > 0
    /\ ticksThisPeriod < MaxTicks
    /\ tdTimer' = tickUpdater(tdTimer)
    /\ tdExpiryDue' = TRUE
    /\ ticksThisPeriod' = ticksThisPeriod + 1
    /\ UNCHANGED <<tdMounted, tdIntervals, tdSeenRunning, gameEndCalls, expirySignals>>
    /\ UNCHANGED notTimerVars
    /\ lastAdvance' = NoAdvance

\* the tick effect, deps [timerState.isRunning]: cleanup, then setup
tickEffectNoCleanup(intervals, seenRunning, isRunning) ==
    IF seenRunning = isRunning THEN intervals
    ELSE intervals + (IF isRunning THEN 1 ELSE 0)

tickEffectIntervals(intervals, seenRunning, isRunning) ==
    IF seenRunning = isRunning THEN intervals
    ELSE (IF seenRunning THEN intervals - 1 ELSE intervals)
         + (IF isRunning THEN 1 ELSE 0)

\* the display/expiry effect, deps [timerState, formatTime, onGameEnd]
halfFinished(t) == t.currentTime <= 0 /\ t.isRunning

expiryCallsGameEndAlways(t) == TRUE

expiryCallsGameEnd(t) == t.currentHalf >= t.numberOfHalves

\* the passive effects of the last render run: the tick effect, then the
\* display/expiry effect; onGameEnd navigates to the summary page
FlushEffects ==
    /\ EffectsDue
    /\ tdSeenRunning' = tdTimer.isRunning
    /\ IF tdExpiryDue /\ halfFinished(tdTimer)
       THEN /\ tdTimer' = [tdTimer EXCEPT !.isRunning = FALSE]
            /\ IF expiryCallsGameEnd(tdTimer)
               THEN /\ gameEndCalls' = gameEndCalls + 1
                    /\ expirySignals' = expirySignals + 1
                    /\ UnmountTimerDisplay
                    /\ tdExpiryDue' = FALSE
               ELSE /\ tdIntervals' = tickEffectIntervals(tdIntervals, tdSeenRunning,
                                                          tdTimer.isRunning)
                    /\ tdExpiryDue' = TRUE
                    /\ UNCHANGED <<tdMounted, gameEndCalls, expirySignals>>
       ELSE /\ tdIntervals' = tickEffectIntervals(tdIntervals, tdSeenRunning,
                                                  tdTimer.isRunning)
            /\ tdExpiryDue' = FALSE
            /\ UNCHANGED <<tdMounted, tdTimer, gameEndCalls, expirySignals>>
    /\ UNCHANGED ticksThisPeriod
    /\ UNCHANGED notTimerVars
    /\ lastAdvance' = NoAdvance

\* handlePlayPauseClick
handlePlayPauseClick ==
    /\ tdMounted
    /\ ~EffectsDue
    /\ tdTimer' = [tdTimer EXCEPT !.isRunning = ~tdTimer.isRunning]
    /\ tdExpiryDue' = TRUE
    /\ UNCHANGED <<tdMounted, tdIntervals, tdSeenRunning, gameEndCalls,
                   expirySignals, ticksThisPeriod>>
    /\ UNCHANGED notTimerVars
    /\ lastAdvance' = NoAdvance

\* handleNextHalfClick: setTimerState(prev => ...)
nextHalfUpdaterKeepsRunning(prev) ==
    [prev EXCEPT !.currentHalf = prev.currentHalf + 1,
                 !.currentTime = prev.halfLength * 60]

nextHalfUpdater(prev) ==
    [prev EXCEPT !.currentHalf = prev.currentHalf + 1,
                 !.currentTime = prev.halfLength * 60,
                 !.isRunning = FALSE]

handleNextHalfClick ==
    /\ tdMounted
    /\ ~EffectsDue
    /\ IF tdTimer.currentHalf < tdTimer.numberOfHalves
       THEN /\ tdTimer' = nextHalfUpdater(tdTimer)
            /\ tdExpiryDue' = TRUE
            /\ expirySignals' = 0
            /\ ticksThisPeriod' = 0
            /\ UNCHANGED <<tdMounted, tdIntervals, tdSeenRunning, gameEndCalls>>
       ELSE /\ gameEndCalls' = gameEndCalls + 1
            /\ UnmountTimerDisplay
            /\ UNCHANGED <<tdTimer, tdSeenRunning, tdExpiryDue, expirySignals,
                           ticksThisPeriod>>
    /\ UNCHANGED notTimerVars
    /\ lastAdvance' = Advance("TimerDisplay", tdTimer)

\* ActiveGame renders again (query data, selection, dialogs): TimerDisplay gets
\* a new onGameEnd function, so the display/expiry effect runs again
ParentRerender ==
    /\ tdMounted
    /\ ~EffectsDue
    /\ ~tdExpiryDue
    /\ tdExpiryDue' = TRUE
    /\ UNCHANGED <<tdMounted, tdTimer, tdIntervals, tdSeenRunning, gameEndCalls,
                   expirySignals, ticksThisPeriod>>
    /\ UNCHANGED notTimerVars
    /\ lastAdvance' = NoAdvance

\* the home button: window.location.href = '/'
LeavePage ==
    /\ tdMounted
    /\ UnmountTimerDisplay
    /\ UNCHANGED <<tdTimer, tdSeenRunning, tdExpiryDue, gameEndCalls, expirySignals,
                   ticksThisPeriod>>
    /\ UNCHANGED notTimerVars
    /\ lastAdvance' = NoAdvance

InitPage ==
    /\ agGame = NoGame
    /\ agRosterLoading = TRUE
    /\ agTimer = agInitialTimer
    /\ agSelectedPlayer = NoSelection
    /\ agRecording = NoRequest
    /\ agActivityLogs = <<>>
    /\ agGameStats = agEmptyGameStats
    /\ tdMounted = FALSE
    /\ tdTimer = agInitialTimer
    /\ tdIntervals = 0
    /\ tdSeenRunning = FALSE
    /\ tdExpiryDue = FALSE
    /\ gameEndCalls = 0
    /\ expirySignals = 0
    /\ ticksThisPeriod = 0

NextPage ==
    \/ (\E game \in GameData : GameQueryLoaded(game))
    \/ RosterQueriesLoaded
    \/ Tick
    \/ FlushEffects
    \/ handlePlayPauseClick
    \/ handleNextHalfClick
    \/ ParentRerender
    \/ LeavePage

\* ------------------------------------------------------------------------
\* ActiveGame: recording stats and substituting
\* ------------------------------------------------------------------------
Range(seq) == {seq[i] : i \in DOMAIN seq}

\* activePlayers = gamePlayers.filter(player => !player.endTime)
activePlayers(roster) == SelectSeq(roster, LAMBDA gp : Falsy(gp.endTime))

\* benchPlayers = allPlayers.filter(player => !activePlayers.some(ap => ap.id === player.id))
benchPlayers(allPlayers, active) ==
    {player \in allPlayers : ~(\E ap \in Range(active) : ap.id = player)}

\* the page shows its clock, lists and buttons once its queries are loaded,
\* until it is left
agLoaded == tdMounted

\* .slice(0, 10)
LogCap == 10

slice(log) == IF Len(log) <= LogCap THEN log ELSE SubSeq(log, 1, LogCap)

\* Date.now() at the time onSuccess runs
Timestamps == {1000}

\* gamePlayers.find(p => p.id === playerId): the index in the roster, 0 if none
FindPlayer(roster, playerId) ==
    IF \E i \in DOMAIN roster : roster[i].id = playerId
    THEN CHOOSE i \in DOMAIN roster :
             roster[i].id = playerId /\ \A j \in DOMAIN roster : roster[j].id = playerId => i <= j
    ELSE 0

ActivityLog(id, time, player, statType, value) ==
    [id |-> id, time |-> time, playerId |-> player.id, playerNumber |-> player.number,
     statType |-> statType, value |-> value]

\* handlePlayerSelect
handlePlayerSelect(player) ==
    /\ agLoaded
    /\ agSelectedPlayer' = player
    /\ UNCHANGED <<agRecording, agActivityLogs, agGameStats>>
    /\ UNCHANGED <<serverVars, pageVars, timerVars, storeVars, flightVars, lastAdvance>>

\* recordStatMutation.mutate(stat): the POST is sent; answered or not, its
\* outcome reaches the page later
recordStatMutate(stat, answered) ==
    /\ agRecording = NoRequest
    /\ IF answered
       THEN /\ PostStatRoute(stat)
            /\ agRecording' = [variables |-> stat, status |-> last'.status]
       ELSE /\ \E status \in FailureStatuses :
                   agRecording' = [variables |-> stat, status |-> status]
            /\ UNCHANGED serverVars
    /\ UNCHANGED <<agSelectedPlayer, agActivityLogs, agGameStats>>
    /\ UNCHANGED <<pageVars, timerVars, storeVars, flightVars, lastAdvance>>

\* recordStatMutation.onSuccess
recordStatOnSuccess(now) ==
    /\ agRecording # NoRequest
    /\ apiRequestResolves(agRecording.status)
    /\ LET variables == agRecording.variables
           roster == getGamePlayers(gamePlayers, agGame.id)
           i == FindPlayer(roster, variables.playerId)
       IN IF i # 0
          THEN /\ agActivityLogs' =
                     slice(<<ActivityLog(now, variables.gameTime, roster[i],
                                         variables.statType, variables.value)>>
                           \o agActivityLogs)
               /\ agGameStats' =
                     [agGameStats EXCEPT ![<<roster[i].id, variables.statType>>] =
                                             @ + variables.value]
          ELSE UNCHANGED <<agActivityLogs, agGameStats>>
    /\ agRecording' = NoRequest
    /\ UNCHANGED agSelectedPlayer
    /\ UNCHANGED <<serverVars, pageVars, timerVars, storeVars, flightVars, lastAdvance>>

\* an onError that counts the stat of the failed request
recordStatOnErrorCounts ==
    /\ agRecording # NoRequest
    /\ ~apiRequestResolves(agRecording.status)
    /\ agGameStats' =
          [agGameStats EXCEPT ![<<agRecording.variables.playerId,
                                  agRecording.variables.statType>>] =
                                  @ + agRecording.variables.value]
    /\ agRecording' = NoRequest
    /\ UNCHANGED <<agSelectedPlayer, agActivityLogs>>
    /\ UNCHANGED <<serverVars, pageVars, timerVars, storeVars, flightVars, lastAdvance>>

\* recordStatMutation.onError: a toast only
recordStatOnError ==
    /\ agRecording # NoRequest
    /\ ~apiRequestResolves(agRecording.status)
    /\ agRecording' = NoRequest
    /\ UNCHANGED <<agSelectedPlayer, agActivityLogs, agGameStats>>
    /\ UNCHANGED <<serverVars, pageVars, timerVars, storeVars, flightVars, lastAdvance>>

\* the effect on [gameStatData, gamePlayers]: newGameStats
RECURSIVE newGameStats(_, _)
newGameStats(totals, gameStatData) ==
    IF gameStatData = <<>> THEN totals
    ELSE newGameStats([totals EXCEPT ![<<Head(gameStatData).playerId,
                                          Head(gameStatData).statType>>] =
                                             @ + Head(gameStatData).value],
                      Tail(gameStatData))

\* the effect on [gameStatData, gamePlayers]: the setActivityLogs updates
RECURSIVE addActivities(_, _, _)
addActivities(log, gameStatData, roster) ==
    IF gameStatData = <<>> THEN log
    ELSE LET stat == Head(gameStatData)
             i == FindPlayer(roster, stat.playerId)
             next ==
                 IF i # 0 /\ ~(\E k \in DOMAIN log : log[k].id = stat.id)
                 THEN slice(<<ActivityLog(stat.id, stat.gameTime, roster[i],
                                          stat.statType, stat.value)>> \o log)
                 ELSE log
         IN addActivities(next, Tail(gameStatData), roster)

\* the stats query is fetched again (it was invalidated) and the effect on
\* [gameStatData, gamePlayers] runs
gameStatDataEffect ==
    /\ agLoaded
    /\ LET gameStatData == getGameStats(stats, agGame.id)
           roster == getGamePlayers(gamePlayers, agGame.id)
       IN IF Len(gameStatData) > 0
          THEN /\ agGameStats' = newGameStats(agEmptyGameStats, gameStatData)
               /\ agActivityLogs' = addActivities(agActivityLogs, gameStatData, roster)
          ELSE UNCHANGED <<agActivityLogs, agGameStats>>
    /\ UNCHANGED <<agSelectedPlayer, agRecording>>
    /\ UNCHANGED <<serverVars, pageVars, timerVars, storeVars, flightVars, lastAdvance>>

\* the body handleStatClick and handleValueSubmit hand to recordStatMutation
statFromClick(gameId, selectedPlayer, statType, value, t) ==
    [gameId |-> gameId,
     playerId |-> selectedPlayer.id,
     statType |-> statType,
     value |-> value,
     gameTime |-> (t.halfLength * 60) - t.currentTime,
     period |-> t.currentHalf]

\* handleStatClick with a player of the active list selected
handleStatClick(selectedPlayer, statType) ==
    /\ agLoaded
    /\ selectedPlayer # NoSelection
    /\ recordStatMutate(statFromClick(agGame.id, selectedPlayer, statType, 1, agTimer),
                        TRUE)

\* handleValueSubmit: the value dialog (opened by handleStatClick for "Meters")
\* is saved with statValue as typed into its number input
handleValueSubmit(selectedPlayer, currentStatType, statValue) ==
    /\ agLoaded
    /\ selectedPlayer # NoSelection
    /\ recordStatMutate(statFromClick(agGame.id, selectedPlayer, currentStatType,
                                      statValue, agTimer),
                        TRUE)

\* SubstitutionModal: currentTime={(timerState.halfLength * 60) - timerState.currentTime}
modalCurrentTime(t) == (t.halfLength * 60) - t.currentTime

\* SubstitutionModal.handleSubmit -> handleSubstitution -> POST substitutions
handleSubmit(outPlayerId, inPlayerId) ==
    /\ agLoaded
    /\ SubstitutionsCall(agGame.id, outPlayerId, inPlayerId, modalCurrentTime(agTimer))
    /\ UNCHANGED clientVars

\* PlayerSetup saves the lineup before the match page is opened
SetupLineup ==
    /\ agGame = NoGame /\ agRosterLoading
    /\ Len(gamePlayers) < MaxLineup
    /\ \E g \in Games, n \in Shirts, p \in Players :
           PostGamePlayerRoute(g, playerAssignment(g, n, p))
    /\ UNCHANGED clientVars

SelectPlayer ==
    \E player \in Range(activePlayers(getGamePlayers(gamePlayers, agGame.id))) :
        handlePlayerSelect(player)

StatClick ==
    /\ Len(stats) < MaxStats
    /\ \E statType \in StatTypeNames : handleStatClick(agSelectedPlayer, statType)

\* a stat click whose request is not answered
StatClickUnanswered ==
    /\ agLoaded
    /\ agSelectedPlayer # NoSelection
    /\ \E statType \in StatTypeNames :
           recordStatMutate(statFromClick(agGame.id, agSelectedPlayer, statType, 1, agTimer),
                            FALSE)

RecordSucceeded == \E now \in Timestamps : recordStatOnSuccess(now)

RecordSettled ==
    \/ RecordSucceeded
    \/ recordStatOnError

\* the values typed into the value dialog
StatValues == {-1, 0, 2}

ValueSubmit ==
    /\ Len(stats) < MaxStats
    /\ \E statValue \in StatValues : handleValueSubmit(agSelectedPlayer, "Meters", statValue)

ModalSubmit ==
    LET active == activePlayers(getGamePlayers(gamePlayers, agGame.id))
    IN \E ap \in Range(active), inPlayerId \in benchPlayers(Players, active) :
           handleSubmit(ap.id, inPlayerId)

NextMatch ==
    \/ SetupLineup
    \/ NextPage
    \/ SelectPlayer
    \/ StatClick
    \/ RecordSucceeded
    \/ ValueSubmit
    \/ ModalSubmit
    \/ SubstitutionsRespond


\* ------------------------------------------------------------------------
\* useGameStore: the timer
\* ------------------------------------------------------------------------
DefaultHalfLength == 40
DefaultHalves == 2
DefaultCurrentTime == 2400
\* gameStats: {} holds no total; a total that is absent reads as 0
TotalKeys == Players \X StatTypeNames

EmptyGameStats == [k \in TotalKeys |-> 0]

\* gameStats[playerId][statType] += value
addToGameStats(gs, playerId, statType, value) ==
    [gs EXCEPT ![<<playerId, statType>>] = gs[<<playerId, statType>>] + value]

storeInitialTimer ==
    TimerState(FALSE, 1, DefaultCurrentTime, DefaultHalfLength, DefaultHalves)

setCurrentGame(game) ==
    /\ currentGame' = game
    /\ timer' = [timer EXCEPT !.currentTime = game.halfLength * 60,
                              !.halfLength = game.halfLength,
                              !.numberOfHalves = game.numberOfHalves]
    /\ UNCHANGED <<isGameActive, gameStats, activityLog>>
    /\ UNCHANGED notStoreVars
    /\ lastAdvance' = NoAdvance

startGame ==
    /\ isGameActive' = TRUE
    /\ timer' = [timer EXCEPT !.isRunning = TRUE]
    /\ UNCHANGED <<currentGame, gameStats, activityLog>>
    /\ UNCHANGED notStoreVars
    /\ lastAdvance' = NoAdvance

pauseTimer ==
    /\ timer' = [timer EXCEPT !.isRunning = FALSE]
    /\ UNCHANGED <<currentGame, isGameActive, gameStats, activityLog>>
    /\ UNCHANGED notStoreVars
    /\ lastAdvance' = NoAdvance

resumeTimer ==
    /\ timer' = [timer EXCEPT !.isRunning = TRUE]
    /\ UNCHANGED <<currentGame, isGameActive, gameStats, activityLog>>
    /\ UNCHANGED notStoreVars
    /\ lastAdvance' = NoAdvance

\* endGame: posts the completion of currentGame (if any) and stops
endGamePost ==
    IF currentGame # NoGame
    THEN CompleteGameRoute(currentGame.id, currentGame.homeScore)
    ELSE UNCHANGED serverVars

endGameKeepsRunning ==
    /\ endGamePost
    /\ isGameActive' = FALSE
    /\ UNCHANGED <<currentGame, timer, gameStats, activityLog>>
    /\ UNCHANGED <<pageVars, liveVars, timerVars, flightVars>>

endGame ==
    /\ endGamePost
    /\ isGameActive' = FALSE
    /\ timer' = [timer EXCEPT !.isRunning = FALSE]
    /\ UNCHANGED <<currentGame, gameStats, activityLog>>
    /\ UNCHANGED <<pageVars, liveVars, timerVars, flightVars>>

\* the scorekeeper ends the game
EndGame == endGame /\ lastAdvance' = NoAdvance

storeNextHalfTimerKeepsTime(t) ==
    [t EXCEPT !.currentHalf = t.currentHalf + 1, !.isRunning = FALSE]

storeNextHalfTimer(t) ==
    [t EXCEPT !.currentHalf = t.currentHalf + 1,
              !.currentTime = t.halfLength * 60,
              !.isRunning = FALSE]

nextHalf ==
    /\ IF timer.currentHalf + 1 > timer.numberOfHalves
       THEN endGame
       ELSE /\ timer' = storeNextHalfTimer(timer)
            /\ UNCHANGED <<currentGame, isGameActive, gameStats, activityLog>>
            /\ UNCHANGED notStoreVars
    /\ lastAdvance' = Advance("store", timer)

resetGame ==
    /\ currentGame' = NoGame
    /\ isGameActive' = FALSE
    /\ gameStats' = EmptyGameStats
    /\ activityLog' = <<>>
    /\ timer' = storeInitialTimer
    /\ UNCHANGED notStoreVars
    /\ lastAdvance' = NoAdvance

\* loadGameData, resumed with the answers of its fetches: "Process stats" and
\* "Set state"
RECURSIVE processStats(_, _)
processStats(gs, sts) ==
    IF sts = <<>> THEN gs
    ELSE processStats(addToGameStats(gs, Head(sts).playerId, Head(sts).statType,
                                     Head(sts).value),
                      Tail(sts))

loadGameData(game, fetchedStats) ==
    /\ currentGame' = game
    /\ gameStats' = processStats(EmptyGameStats, fetchedStats)
    /\ timer' = TimerState(FALSE, 1, game.halfLength * 60, game.halfLength,
                           game.numberOfHalves)
    /\ UNCHANGED <<isGameActive, activityLog, recordInFlight>>
    /\ UNCHANGED <<serverVars, pageVars, liveVars, timerVars>>
    /\ lastAdvance' = NoAdvance

\* loadGameData with nothing happening between its fetches and its set
LoadGameData ==
    /\ loadFetched = NoRequest
    /\ \E game \in GameData : loadGameData(game, getGameStats(stats, game.id))
    /\ UNCHANGED loadFetched

\* loadGameData up to the answer of its second fetch
loadGameDataFetch(game) ==
    /\ loadFetched = NoRequest
    /\ loadFetched' = [game |-> game, stats |-> getGameStats(stats, game.id)]
    /\ UNCHANGED <<serverVars, pageVars, liveVars, timerVars, storeVars, recordInFlight, lastAdvance>>

loadGameDataSet ==
    /\ loadFetched # NoRequest
    /\ loadGameData(loadFetched.game, loadFetched.stats)
    /\ loadFetched' = NoRequest

\* recordStat up to its await: the stat is posted and created
statFromStore(game, t, playerId, statType, value) ==
    [gameId |-> game.id,
     playerId |-> playerId,
     statType |-> statType,
     value |-> value,
     gameTime |-> (t.halfLength * 60) - t.currentTime,
     period |-> t.currentHalf]

\* .slice(0, 100)
StoreLogCap == 100

storeSlice(log) == IF Len(log) <= StoreLogCap THEN log ELSE SubSeq(log, 1, StoreLogCap)

\* the entry recordStat puts on the store's activity log (the player's name
\* and number are passed through from the caller for display)
StoreActivity(id, timestamp, playerId, statType, value) ==
    [id |-> id, timestamp |-> timestamp, playerId |-> playerId,
     statType |-> statType, value |-> value]

\* recordStat up to its await; the request reaches the route and is answered,
\* or it fails on the way
recordStatPost(playerId, statType, value, answered) ==
    /\ currentGame # NoGame
    /\ recordInFlight = NoRequest
    /\ LET stat == statFromStore(currentGame, timer, playerId, statType, value)
       IN IF answered
          THEN /\ PostStatRoute(stat)
               /\ recordInFlight' = [playerId |-> playerId, statType |-> statType,
                                     value |-> value, gameTime |-> stat.gameTime,
                                     status |-> last'.status]
          ELSE /\ \E status \in FailureStatuses :
                      recordInFlight' = [playerId |-> playerId, statType |-> statType,
                                         value |-> value, gameTime |-> stat.gameTime,
                                         status |-> status]
               /\ UNCHANGED serverVars
    /\ UNCHANGED <<pageVars, liveVars, timerVars, storeVars, loadFetched, lastAdvance>>

\* recordStat resumed with the saved stat: "Update local state"
recordStatSaved(now) ==
    /\ recordInFlight # NoRequest
    /\ apiRequestResolves(recordInFlight.status)
    /\ gameStats' = addToGameStats(gameStats, recordInFlight.playerId,
                                   recordInFlight.statType, recordInFlight.value)
    /\ activityLog' =
          storeSlice(<<StoreActivity(now, recordInFlight.gameTime, recordInFlight.playerId,
                                     recordInFlight.statType, recordInFlight.value)>>
                     \o activityLog)
    /\ recordInFlight' = NoRequest
    /\ UNCHANGED <<currentGame, isGameActive, timer>>
    /\ UNCHANGED <<serverVars, pageVars, liveVars, timerVars, loadFetched, lastAdvance>>

\* recordStat resumed in its catch: console.error only
recordStatCatch ==
    /\ recordInFlight # NoRequest
    /\ ~apiRequestResolves(recordInFlight.status)
    /\ recordInFlight' = NoRequest
    /\ UNCHANGED <<serverVars, pageVars, liveVars, timerVars, storeVars, loadFetched,
                   lastAdvance>>

InitStore ==
    /\ lastAdvance = NoAdvance
    /\ gameStats = EmptyGameStats
    /\ activityLog = <<>>
    /\ recordInFlight = NoRequest
    /\ loadFetched = NoRequest
    /\ currentGame = NoGame
    /\ isGameActive = FALSE
    /\ timer = storeInitialTimer

NextStore ==
    \/ (\E game \in GameData : setCurrentGame(game))
    \/ LoadGameData
    \/ startGame
    \/ pauseTimer
    \/ resumeTimer
    \/ nextHalf
    \/ EndGame
    \/ resetGame

\* the values of the stats recorded through the store
StoreStatValues == {1, 2}

RecordStat ==
    /\ Len(stats) < MaxStats
    /\ \E playerId \in Players, statType \in StatTypeNames, value \in StoreStatValues :
           recordStatPost(playerId, statType, value, TRUE)

\* a recordStat whose request fails on the way
RecordStatUnanswered ==
    \E playerId \in Players, statType \in StatTypeNames, value \in StoreStatValues :
        recordStatPost(playerId, statType, value, FALSE)

RecordStatSaved == \E now \in Timestamps : recordStatSaved(now)

LoadGameDataFetch == \E game \in GameData : loadGameDataFetch(game)

\* the store's totals: loading a game, recording stats, resetting
NextTotals ==
    \/ LoadGameDataFetch
    \/ loadGameDataSet
    \/ RecordStat
    \/ RecordStatUnanswered
    \/ RecordStatSaved
    \/ recordStatCatch
    \/ resetGame

\* ------------------------------------------------------------------------
\* Specifications
\* ------------------------------------------------------------------------
NextRoster == LineupSave \/ Substitute \/ SubstitutionsRespond \/ ReadRoster

NextLedger == LineupSave \/ Substitute \/ SubstitutionsRespond \/ Record \/ ReadLedger

Init == InitServer /\ InitPage /\ InitStore

\* roster operations only
SpecRoster == Init /\ [][NextRoster]_vars

\* roster and stat ledger
SpecLedger == Init /\ [][NextLedger]_vars

\* the live-match page and its TimerDisplay
SpecTimer == Init /\ [][NextPage]_vars

\* both match clocks: the TimerDisplay and the game store's timer
SpecClock == Init /\ [][NextPage \/ NextStore]_vars

\* the game store's totals
SpecTotals == Init /\ [][NextTotals]_vars

\* the API: games, lineups, substitutions and stats
NextApi ==
    \/ CreateGame
    \/ UpdateGame
    \/ CompleteGame
    \/ SetupLineup
    \/ Substitute
    \/ SubstitutionsRespond
    \/ RecordEvent

SpecApi == Init /\ [][NextApi]_vars

\* the match page with its clock, stat buttons and substitution dialog
SpecMatch == Init /\ [][NextMatch]_vars

\* the match page without its clock: selecting, recording, reloading the
\* stats, substituting
NextLive ==
    \/ SetupLineup
    \/ (\E game \in GameData : GameQueryLoaded(game))
    \/ RosterQueriesLoaded
    \/ SelectPlayer
    \/ StatClick
    \/ StatClickUnanswered
    \/ RecordSettled
    \/ gameStatDataEffect
    \/ ModalSubmit
    \/ SubstitutionsRespond

SpecLive == Init /\ [][NextLive]_vars

\* recording through the match page and through the game store, with
\* requests that fail
NextRecord ==
    \/ SetupLineup
    \/ (\E game \in GameData : GameQueryLoaded(game))
    \/ RosterQueriesLoaded
    \/ SelectPlayer
    \/ StatClick
    \/ StatClickUnanswered
    \/ RecordSettled
    \/ gameStatDataEffect
    \/ LoadGameData
    \/ RecordStat
    \/ RecordStatUnanswered
    \/ RecordStatSaved
    \/ recordStatCatch
    \/ resetGame

SpecRecord == Init /\ [][NextRecord]_vars

\* ------------------------------------------------------------------------
\* Roster queries
\* ------------------------------------------------------------------------


\* a roster entry whose exit time is unset
Unexited(gp) == gp.endTime = Null

\* the player has an entry of the match whose exit time is unset
HasActiveEntry(gps, gameId, playerId) ==
    \E i \in 1..Len(gps) :
        gps[i].gameId = gameId /\ gps[i].playerId = playerId /\ Unexited(gps[i])

\* the player has an entry of the match that is active at the elapsed time:
\* entered by then (a lineup entry without start time counts from the start),
\* not exited by then
ActiveAt(gps, gameId, playerId, time) ==
    \E i \in 1..Len(gps) :
        /\ gps[i].gameId = gameId
        /\ gps[i].playerId = playerId
        /\ (gps[i].startTime = Null \/ gps[i].startTime <= time)
        /\ (gps[i].endTime = Null \/ gps[i].endTime > time)

\* an exited entry of the list without the entry its substitution creates
PartialSubstitution(roster) ==
    \E i \in 1..Len(roster) :
        /\ roster[i].endTime # Null
        /\ ~\E j \in (i + 1)..Len(roster) :
              /\ roster[j].gameId = roster[i].gameId
              /\ roster[j].number = roster[i].number
              /\ roster[j].position = roster[i].position
              /\ roster[j].isStarter = FALSE
              /\ roster[j].startTime = roster[i].endTime

\* ------------------------------------------------------------------------
\* Claims
\* ------------------------------------------------------------------------

\* C1: the entries of a match whose exit time is unset hold at most one entry
\* per shirt number, after any lineup saves and substitutions.
C1_ShirtNumberUnique ==
    \A i, j \in 1..Len(gamePlayers) :
        ( /\ i # j
          /\ gamePlayers[i].gameId = gamePlayers[j].gameId
          /\ Unexited(gamePlayers[i])
          /\ Unexited(gamePlayers[j]) )
        => gamePlayers[i].number # gamePlayers[j].number

\* C2: after a successful substitute(match, out, in, atSeconds), for every
\* atSeconds from 0 upward and in # out, the outgoing player is not among the
\* match's active players and the incoming player is, through one new entry
\* with the outgoing entry's shirt number and position, isStarter = FALSE,
\* startTime = atSeconds and no exit time.
C2_SubstitutePostcondition ==
    [][\A g \in Games, o \in Players, i \in Players, t \in Times :
        (i # o /\ SubstitutionsCall(g, o, i, t) /\ pending' = "ok") =>
            LET out == gamePlayers[FindOutPlayerRecord(gamePlayers, g, o)]
                active == activePlayers(getGamePlayers(gamePlayers', g))
                new == gamePlayers'[Len(gamePlayers')]
            IN /\ \A k \in 1..Len(active) : active[k].playerId # o
               /\ Len(gamePlayers') = Len(gamePlayers) + 1
               /\ \E k \in 1..Len(active) : active[k] = new
               /\ new.playerId = i
               /\ new.number = out.number
               /\ new.position = out.position
               /\ new.isStarter = FALSE
               /\ new.startTime = t
               /\ new.endTime = Null
      ]_vars

\* C3: a substitute call for an outgoing player without an entry of the match
\* whose exit time is unset fails (HTTP 400) and leaves every roster entry as
\* it was: none exited, none created.
C3_FailedSubstitutionUnchanged ==
    [][\A g \in Games, o \in Players, i \in Players, t \in Times :
        (SubstitutionsCall(g, o, i, t) /\ ~HasActiveEntry(gamePlayers, g, o)) =>
            /\ pending' = "fail"
            /\ gamePlayers' = gamePlayers
            /\ currentGamePlayerId' = currentGamePlayerId
      ]_vars

\* C4: a record request for a player without a roster entry of the match that
\* is active at the given elapsed time fails and appends nothing to the ledger.
C4_RecordNeedsActivePlayer ==
    [][\A body \in StatBodies :
        ( /\ PostStatRoute(body)
          /\ ValidStat(body)
          /\ ~ActiveAt(gamePlayers, body.gameId, body.playerId, body.gameTime) )
        => (last'.status = 400 /\ stats' = stats)
      ]_vars

\* C5: neither the storage nor any roster a reader is sent ever holds an
\* exited entry without the entry its substitution creates, also while the
\* substitution request is suspended; and a substitution that fails changes
\* no roster entry.
C5_SubstitutionIsOneUnit ==
    /\ [](/\ ~PartialSubstitution(gamePlayers)
          /\ (last.op = "GET players" => ~PartialSubstitution(last.body)))
    /\ [][(pending = "none" /\ pending' = "fail") => gamePlayers' = gamePlayers]_vars

\* a reader was sent the roster while a successful substitution was suspended
\* before its response, and the roster shows both the exit and the new entry
C5_Witness ==
    /\ pending = "ok"
    /\ last.op = "GET players"
    /\ \E i \in 1..Len(last.body) : last.body[i].endTime # Null
    /\ \E i \in 1..Len(last.body) :
          last.body[i].isStarter = FALSE /\ last.body[i].startTime # Null

\* the bounds of a match clock
ClockBounds(t) ==
    /\ 0 <= t.currentTime /\ t.currentTime <= t.halfLength * 60
    /\ 1 <= t.currentHalf /\ t.currentHalf <= t.numberOfHalves

\* C6: in every reachable state of the TimerDisplay's clock and of the game
\* store's timer, 0 <= currentTime <= halfLength * 60 and
\* 1 <= currentHalf <= numberOfHalves.
C6_ClockBounds == ClockBounds(tdTimer) /\ ClockBounds(timer)

\* C7: a tick of the running clock decrements currentTime by exactly 1, never
\* below 0; when currentTime has reached 0 while running, isRunning becomes
\* false and a signal is given to the caller, in every period, and currentHalf
\* is not advanced.
C7_TickAndExpiry ==
    [][/\ Tick => /\ tdTimer'.currentTime = tdTimer.currentTime - 1
                  /\ tdTimer'.currentTime >= 0
       /\ (FlushEffects /\ tdExpiryDue /\ halfFinished(tdTimer)) =>
              /\ tdTimer'.isRunning = FALSE
              /\ expirySignals' = expirySignals + 1
              /\ tdTimer'.currentHalf = tdTimer.currentHalf
      ]_vars

\* C8: with N = halfLength * 60, no expiry signal is raised before the N-th
\* tick of a period, never more than one, and once the N-th tick has been
\* processed currentTime = 0 and exactly one signal has been raised.
C8_ExpiredOnceOnNthTick ==
    LET N == tdTimer.halfLength * 60
    IN /\ expirySignals <= 1
       /\ ticksThisPeriod < N => expirySignals = 0
       /\ (ticksThisPeriod = N /\ ~EffectsDue /\ (tdMounted \/ gameEndCalls > 0)) =>
              (tdTimer.currentTime = 0 /\ expirySignals = 1)

C10_AdvancePeriod ==
    [][/\ (handleNextHalfClick /\ tdTimer.currentHalf < tdTimer.numberOfHalves) =>
              tdTimer' = [tdTimer EXCEPT !.currentHalf = tdTimer.currentHalf + 1,
                                         !.currentTime = tdTimer.halfLength * 60,
                                         !.isRunning = FALSE]
       /\ (nextHalf /\ timer.currentHalf < timer.numberOfHalves) =>
              (timer' = [timer EXCEPT !.currentHalf = timer.currentHalf + 1,
                                      !.currentTime = timer.halfLength * 60,
                                      !.isRunning = FALSE]
                  /\ isGameActive' = isGameActive)
      ]_vars

\* the TimerDisplay was advanced out of a running period with time consumed
C10_Witness ==
    /\ lastAdvance.clock = "TimerDisplay"
    /\ lastAdvance.before.currentHalf < lastAdvance.before.numberOfHalves
    /\ lastAdvance.before.isRunning
    /\ lastAdvance.before.currentTime < lastAdvance.before.halfLength * 60
    /\ lastAdvance.before.currentTime > 0
    /\ tdTimer.currentHalf = lastAdvance.before.currentHalf + 1

\* C11: pause and resume change only isRunning (currentTime, currentHalf and
\* every other field of the clock stay), and while the clock is paused no tick
\* changes currentTime.
C11_PauseResumeFrame ==
    [][/\ handlePlayPauseClick =>
              tdTimer' = [tdTimer EXCEPT !.isRunning = ~tdTimer.isRunning]
       /\ pauseTimer => timer' = [timer EXCEPT !.isRunning = FALSE]
       /\ resumeTimer => timer' = [timer EXCEPT !.isRunning = TRUE]
       /\ (Tick /\ ~tdTimer.isRunning) => tdTimer'.currentTime = tdTimer.currentTime
      ]_vars

\* the TimerDisplay's clock is paused in the middle of a period, its effects run
C11_Witness ==
    /\ tdMounted /\ ~EffectsDue
    /\ ~tdTimer.isRunning
    /\ ticksThisPeriod > 0
    /\ 0 < tdTimer.currentTime /\ tdTimer.currentTime < tdTimer.halfLength * 60

\* the canonical timestamp of a clock
elapsedSeconds(t) ==
    (t.currentHalf - 1) * (t.halfLength * 60) + ((t.halfLength * 60) - t.currentTime)

\* C12: the gameTime stamped on a recorded stat and the time stamped on a
\* substitution (exit of the outgoing entry, start of the incoming one) equal
\* elapsedSeconds of the clock the scorekeeper sees at the moment of the action.
C12_CanonicalTimestamp ==
    [][/\ (StatClick /\ Len(stats') = Len(stats) + 1) =>
              stats'[Len(stats')].gameTime = elapsedSeconds(tdTimer)
       /\ (ModalSubmit /\ pending' = "ok") =>
              /\ gamePlayers'[Len(gamePlayers')].startTime = elapsedSeconds(tdTimer)
              /\ \E i \in DOMAIN gamePlayers :
                     /\ gamePlayers'[i].endTime # gamePlayers[i].endTime
                     /\ gamePlayers'[i].endTime = elapsedSeconds(tdTimer)
      ]_vars

\* C13: every successful record adds exactly one stat to the ledger of its
\* match and returns it, and no operation of the API (record, substitute,
\* lineup assignment, game update, game completion) removes or changes a stat
\* that is in the ledger.
C13_AppendOnlyLedger ==
    [][/\ \A i \in DOMAIN stats : i \in DOMAIN stats' /\ stats'[i] = stats[i]
       /\ (RecordEvent /\ last'.status = 201) =>
              /\ Len(stats') = Len(stats) + 1
              /\ last'.body = <<stats'[Len(stats')]>>
              /\ \A g \in Games :
                     Len(getGameStats(stats', g)) =
                         Len(getGameStats(stats, g))
                             + (IF g = last'.body[1].gameId THEN 1 ELSE 0)
      ]_vars

\* two stats are in the ledger, the first of a game that was completed, with a
\* substitution made in that game
C13_Witness ==
    /\ Len(stats) = 2
    /\ \E i \in DOMAIN games : games[i].isCompleted /\ games[i].id = stats[1].gameId
    /\ \E i \in DOMAIN gamePlayers :
           gamePlayers[i].gameId = stats[1].gameId /\ gamePlayers[i].endTime # Null

\* C14: a record request whose value is below 1 is rejected (400) and appends
\* nothing, so every stat in the ledger has value >= 1.
C14_StatValuesPositive ==
    [][/\ \A i \in DOMAIN stats' : stats'[i].value >= 1
       /\ \A selectedPlayer \in Range(gamePlayers), statValue \in StatValues :
              (handleValueSubmit(selectedPlayer, "Meters", statValue) /\ statValue < 1) =>
                  (last'.status = 400 /\ stats' = stats)
      ]_vars

\* the pure recomputation: the sum of value over the stats of one player and type
RECURSIVE SumValues(_, _, _)
SumValues(sts, playerId, statType) ==
    IF sts = <<>> THEN 0
    ELSE (IF Head(sts).playerId = playerId /\ Head(sts).statType = statType
          THEN Head(sts).value ELSE 0)
         + SumValues(Tail(sts), playerId, statType)

playerTotals(sts) == [k \in TotalKeys |-> SumValues(sts, k[1], k[2])]

\* C15: whenever no record and no load is in flight, the totals kept by the
\* live-match state equal the sum of value over the stats of the current match,
\* whatever the interleaving of record completions and reloads was.
C15_TotalsEqualRecomputation ==
    (currentGame # NoGame /\ recordInFlight = NoRequest /\ loadFetched = NoRequest) =>
        gameStats = playerTotals(getGameStats(stats, currentGame.id))

\* ------------------------------------------------------------------------
\* GameSummary (client): the totals it shows for a finished match
\* ------------------------------------------------------------------------
NoTotals == [t \in StatTypeNames |-> 0]

\* stats.forEach(stat => { ... totalStats[stat.statType] += stat.value })
RECURSIVE addPlayerStats(_, _)
addPlayerStats(totals, sts) ==
    IF sts = <<>> THEN totals
    ELSE addPlayerStats([totals EXCEPT ![Head(sts).statType] = @ + Head(sts).value],
                        Tail(sts))

\* gamePlayers.forEach(player => { const stats = gameStats.filter(stat =>
\* stat.playerId === player.id); ... }), gamePlayers being the records that
\* GET /games/:id/players returns
RECURSIVE totalStats(_, _)
totalStats(roster, sts) ==
    IF roster = <<>> THEN NoTotals
    ELSE addPlayerStats(totalStats(Tail(roster), sts),
                        SelectSeq(sts, LAMBDA stat : stat.playerId = Head(roster).id))

GameSummaryTotals(gameId) ==
    totalStats(getGamePlayers(gamePlayers, gameId), getGameStats(stats, gameId))

RECURSIVE SumOfType(_, _)
SumOfType(sts, statType) ==
    IF sts = <<>> THEN 0
    ELSE (IF Head(sts).statType = statType THEN Head(sts).value ELSE 0)
         + SumOfType(Tail(sts), statType)

teamTotals(gameId) ==
    [t \in StatTypeNames |-> SumOfType(getGameStats(stats, gameId), t)]

\* C16: for every match, the totals the summary shows map each stat type to
\* the sum of value over all the stats of the match with that type, each stat
\* counted exactly once whichever player it is attributed to.
C16_TeamTotalsCountEveryEvent ==
    \A gameId \in Games : GameSummaryTotals(gameId) = teamTotals(gameId)

\* ------------------------------------------------------------------------
\* Score
\* ------------------------------------------------------------------------
\* the points of one stat of a scoring type, 0 for the other types
points(statType) ==
    CASE statType = "Try" -> 5
      [] statType = "Conversion" -> 2
      [] statType = "Penalty Goal" -> 2
      [] statType = "Field Goal" -> 1
      [] OTHER -> 0

RECURSIVE SumPoints(_)
SumPoints(sts) ==
    IF sts = <<>> THEN 0 ELSE points(Head(sts).statType) + SumPoints(Tail(sts))

derivedScore(gameId) == SumPoints(getGameStats(stats, gameId))

\* C17: the score stored on every match (homeScore, including the value
\* written when the match is completed) equals 5 per Try, 2 per Conversion,
\* 2 per Penalty Goal and 1 per Field Goal over the stats of the match.
C17_StoredScoreIsDerivedScore ==
    \A i \in DOMAIN games : games[i].homeScore = derivedScore(games[i].id)

\* C18: an entry that has been exited stays as it is: no later substitute call,
\* for any player and any time (0 included), selects it as the outgoing entry,
\* changes its exit time or makes it active again.
C18_ExitTimeSetOnce ==
    [][\A k \in DOMAIN gamePlayers :
        gamePlayers[k].endTime # Null =>
            /\ k \in DOMAIN gamePlayers'
            /\ gamePlayers'[k].endTime = gamePlayers[k].endTime
            /\ \A g \in Games, o \in Players, i \in Players, t \in Times :
                   SubstitutionsCall(g, o, i, t) =>
                       FindOutPlayerRecord(gamePlayers, g, o) # k
      ]_vars

\* C19: on the match page, the bench is exactly the set of club players without
\* an active roster entry in the match: a club player is offered on the bench
\* if and only if no active entry of the match has that player as playerId.
C19_BenchIsComplementOfActive ==
    agLoaded =>
        benchPlayers(Players, activePlayers(getGamePlayers(gamePlayers, agGame.id)))
            = {p \in Players : ~HasActiveEntry(gamePlayers, agGame.id, p)}

\* ------------------------------------------------------------------------
\* PlayerSetup (client): savePlayersMutation
\* ------------------------------------------------------------------------
\* positionSelections: the player chosen for each position, 0 for none
PositionSelections == [Shirts -> {0} \cup Players]

\* Object.entries(positionSelections).map(...).filter(p => p.playerId > 0),
\* in the ascending order of the position numbers
RECURSIVE validPlayerAssignments(_, _, _)
validPlayerAssignments(gameId, selections, positions) ==
    IF positions = {} THEN <<>>
    ELSE LET n == CHOOSE m \in positions : \A k \in positions : m <= k
         IN (IF selections[n] > 0
             THEN <<playerAssignment(gameId, n, selections[n])>>
             ELSE <<>>)
            \o validPlayerAssignments(gameId, selections, positions \ {n})

\* POST /games/:id/players for each assignment in turn; a request whose
\* position is not in answered fails before it reaches the server
RECURSIVE postAssignments(_, _, _)
postAssignments(server, assignments, answered) ==
    IF assignments = <<>> THEN server
    ELSE LET body == Head(assignments)
             next ==
                 IF body.number \notin answered THEN server
                 ELSE IF ~ValidGamePlayer(body)
                 THEN [server EXCEPT !.last = Response("POST players", 400, <<>>)]
                 ELSE LET r == createGamePlayer(server.gamePlayers,
                                                server.currentGamePlayerId, body)
                      IN [gamePlayers |-> r.gamePlayers,
                          currentGamePlayerId |-> r.currentGamePlayerId,
                          last |-> Response("POST players", 201,
                                            <<r.gamePlayers[Len(r.gamePlayers)]>>)]
         IN postAssignments(next, Tail(assignments), answered)

\* Promise.all(promises) resolves: every request was answered 201
savePlayersResolves(assignments, answered) ==
    \A k \in DOMAIN assignments :
        assignments[k].number \in answered /\ ValidGamePlayer(assignments[k])

\* savePlayersMutation.mutate() with the requests it sends, up to onSuccess or
\* onError
savePlayers(gameId, selections, answered) ==
    LET assignments == validPlayerAssignments(gameId, selections, Shirts)
        server == postAssignments([gamePlayers |-> gamePlayers,
                                   currentGamePlayerId |-> currentGamePlayerId,
                                   last |-> last],
                                  assignments, answered)
    IN /\ Len(server.gamePlayers) <= MaxGamePlayers
       /\ gamePlayers' = server.gamePlayers
       /\ currentGamePlayerId' = server.currentGamePlayerId
       /\ last' = server.last
       /\ UNCHANGED <<gameVars, stats, currentStatId, pending>>
       /\ UNCHANGED clientVars

SavePlayers ==
    \E gameId \in Games, selections \in PositionSelections, answered \in SUBSET Shirts :
        savePlayers(gameId, selections, answered)

NextSetup ==
    \/ SavePlayers
    \/ Substitute
    \/ SubstitutionsRespond
    \/ ReadRoster

\* lineups saved by PlayerSetup, substitutions and roster reads
SpecSetup == Init /\ [][NextSetup]_vars

\* C20: a lineup save that fails (an entry of the lineup fails validation or
\* creation) creates no roster entry of that lineup: the roster is left as it
\* was, so a retry starts from the unchanged roster.
C20_LineupAllOrNothing ==
    [][\A gameId \in Games, selections \in PositionSelections, answered \in SUBSET Shirts :
        ( /\ savePlayers(gameId, selections, answered)
          /\ ~savePlayersResolves(validPlayerAssignments(gameId, selections, Shirts),
                                   answered) )
        => gamePlayers' = gamePlayers
      ]_vars

\* C21: every roster entry a starting-lineup save creates has isStarter = TRUE
\* and startTime = 0, whatever its shirt number.
C21_LineupEntriesStartAtZero ==
    [][\A gameId \in Games, selections \in PositionSelections, answered \in SUBSET Shirts :
        savePlayers(gameId, selections, answered) =>
            \A k \in (Len(gamePlayers) + 1)..Len(gamePlayers') :
                gamePlayers'[k].isStarter /\ gamePlayers'[k].startTime = 0
      ]_vars

\* C22: for every match, the active players are listed in ascending order of
\* shirt number, after any lineup saves and substitutions.
C22_ActivePlayersByShirtNumber ==
    \A gameId \in Games :
        LET active == activePlayers(getGamePlayers(gamePlayers, gameId))
        IN \A i, j \in DOMAIN active : i < j => active[i].number <= active[j].number

\* ------------------------------------------------------------------------
\* Stat queries
\* ------------------------------------------------------------------------
getPlayerGameStats(sts, gameId, playerId) ==
    SelectSeq(sts, LAMBDA stat : stat.gameId = gameId /\ stat.playerId = playerId)

\* GET /games/:gameId/players/:playerId/stats
GetPlayerGameStatsRoute(gameId, playerId) ==
    /\ last' = Response("GET player stats", 200, getPlayerGameStats(stats, gameId, playerId))
    /\ UNCHANGED <<gameVars, gamePlayers, currentGamePlayerId, stats, currentStatId, pending>>

Periods == {1, 2}

\* stats posted with their game time and period
TimedBodies ==
    [gameId : Games, playerId : Players, statType : {"Try"}, value : {1},
     gameTime : Times, period : Periods]

RecordTimed ==
    /\ Len(stats) < MaxEvents
    /\ \E body \in TimedBodies : PostStatRoute(body)
    /\ UNCHANGED clientVars

ReadPlayerLedger ==
    /\ \E g \in Games, p \in Players : GetPlayerGameStatsRoute(g, p)
    /\ UNCHANGED clientVars

NextEvents ==
    \/ RecordTimed
    \/ ReadLedger
    \/ ReadPlayerLedger

\* stats recorded at chosen game times, and the two stat queries
SpecEvents == Init /\ [][NextEvents]_vars

\* ordered by gameTime ascending, ties in insertion (id) order
OrderedByGameTime(sts) ==
    \A i, j \in DOMAIN sts :
        i < j => \/ sts[i].gameTime < sts[j].gameTime
                 \/ (sts[i].gameTime = sts[j].gameTime /\ sts[i].id < sts[j].id)

\* C23: the stats a reader is sent for a match, or for a player of a match,
\* are ordered by game time ascending with ties in insertion order, whatever
\* was recorded and in which period.
C23_EventsOrderedByTime ==
    last.op \in {"GET stats", "GET player stats"} => OrderedByGameTime(last.body)

\* C24: at most one interval is scheduled for the displayed clock, and none
\* once the effects of the last update have run and the clock is paused or its
\* period has expired, nor once the match view is left or the match has ended
\* (also when it is ended from the final period while the clock is running).
C24_NoDanglingTimers ==
    /\ tdIntervals \in {0, 1}
    /\ ~tdMounted => tdIntervals = 0
    /\ gameEndCalls > 0 => tdIntervals = 0
    /\ (tdMounted /\ ~EffectsDue /\ ~tdTimer.isRunning) => tdIntervals = 0
    /\ (tdMounted /\ ~EffectsDue /\ tdTimer.currentTime = 0) => tdIntervals = 0

\* the match was ended from the final period while its clock was running
C24_Witness ==
    /\ gameEndCalls > 0
    /\ ~tdMounted
    /\ lastAdvance.clock = "TimerDisplay"
    /\ tdTimer.isRunning
    /\ tdTimer.currentHalf = tdTimer.numberOfHalves
    /\ 0 < tdTimer.currentTime /\ tdTimer.currentTime < tdTimer.halfLength * 60

\* ------------------------------------------------------------------------
\* Independence of matches
\* ------------------------------------------------------------------------
\* the roster and the ledger of every match but gameId stay as they are
OtherMatchesUnchanged(gameId) ==
    \A g \in Games \ {gameId} :
        /\ getGamePlayers(gamePlayers', g) = getGamePlayers(gamePlayers, g)
        /\ getGameStats(stats', g) = getGameStats(stats, g)

\* the clock a match is given when it becomes the current one: setCurrentGame
clockShownFor(t, game) ==
    [t EXCEPT !.currentTime = game.halfLength * 60,
              !.halfLength = game.halfLength,
              !.numberOfHalves = game.numberOfHalves]

\* C25: a lineup entry, a substitution or a record for one match leaves the
\* roster and the ledger of every other match unchanged, and a clock action on
\* the current match leaves the clock of every other match unchanged: the clock
\* another match is given when it is opened is the same before and after.
C25_MatchesIndependent ==
    [][/\ \A h \in Games :
            /\ (\E body \in GamePlayerBodies(h) : PostGamePlayerRoute(h, body))
                   => OtherMatchesUnchanged(h)
            /\ (\E o \in Players, i \in Players, t \in Times : SubstitutionsCall(h, o, i, t))
                   => OtherMatchesUnchanged(h)
            /\ (\E body \in StatBodies \cup TimedBodies :
                    body.gameId = h /\ PostStatRoute(body))
                   => OtherMatchesUnchanged(h)
       /\ \A game \in GameData :
            ( /\ currentGame # NoGame
              /\ currentGame.id # game.id
              /\ (startGame \/ pauseTimer \/ resumeTimer \/ nextHalf) )
            => clockShownFor(timer', game) = clockShownFor(timer, game)
      ]_vars

\* C26: the player selected for recording is none or an active player of the
\* match (an entry of the match without exit time); once the selected player
\* has been substituted off, the selection does not designate that player, so
\* no stat click records for that player.
C26_SelectionIsActive ==
    agSelectedPlayer # NoSelection =>
        \E i \in DOMAIN gamePlayers :
            /\ gamePlayers[i].id = agSelectedPlayer.id
            /\ gamePlayers[i].gameId = agGame.id
            /\ Unexited(gamePlayers[i])

\* C27: a player has at most one active roster entry per match: no player id
\* appears in two entries of the same match that both have no exit time, after
\* any lineup saves and substitutions.
C27_OneActiveEntryPerPlayer ==
    \A i, j \in DOMAIN gamePlayers :
        ( /\ i # j
          /\ gamePlayers[i].gameId = gamePlayers[j].gameId
          /\ Unexited(gamePlayers[i])
          /\ Unexited(gamePlayers[j]) )
        => gamePlayers[i].playerId # gamePlayers[j].playerId

\* the clock of a match before its first start
matchClock(game) ==
    TimerState(FALSE, 1, game.halfLength * 60, game.halfLength, game.numberOfHalves)

\* C28: the displayed clock is initialised from the match, whatever the order
\* in which the queries resolve: when it appears it is the match's clock (first
\* period, halfLength x 60 seconds remaining, the match's halfLength and
\* numberOfHalves, stopped), and whenever it is started its period length and
\* number of periods are the match's.
C28_ClockInitialisedFromMatch ==
    [][/\ (~tdMounted /\ tdMounted') => tdTimer' = matchClock(agGame')
       /\ (handlePlayPauseClick /\ ~tdTimer.isRunning) =>
              /\ tdTimer.halfLength = agGame.halfLength
              /\ tdTimer.numberOfHalves = agGame.numberOfHalves
      ]_vars


\* ---------------------------------------------------------------------
\* the recent-activity log of the live match page

\* the log entries that show the recorded stat st
entriesOf(log, st) ==
    {k \in DOMAIN log : /\ log[k].playerId = st.playerId
                        /\ log[k].statType = st.statType
                        /\ log[k].value = st.value
                        /\ log[k].time = st.gameTime}

\* the recorded stats of the match that a log entry can show
sameRecord(sts, st) ==
    {k \in DOMAIN sts : /\ sts[k].playerId = st.playerId
                        /\ sts[k].statType = st.statType
                        /\ sts[k].value = st.value
                        /\ sts[k].gameTime = st.gameTime}

\* C29: each recorded stat appears at most once in the recent-activity log
\* of the live match (the entries showing a record are never more than the
\* stats recorded with that content), after any interleaving of record
\* successes and reloads of the match's stats, and the log never holds more
\* than 10 entries.
C29_LogHoldsEachStatOnce ==
    LET sts == getGameStats(stats, agGame.id)
    IN /\ Len(agActivityLogs) <= LogCap
       /\ \A k \in DOMAIN sts :
              Cardinality(entriesOf(agActivityLogs, sts[k]))
                  <= Cardinality(sameRecord(sts, sts[k]))


\* ---------------------------------------------------------------------
\* failed record requests

\* the stats of the ledger that an entry of the page's log can show
pageEntryAccepted(e, sts) ==
    \E k \in DOMAIN sts : /\ sts[k].playerId = e.playerId
                          /\ sts[k].statType = e.statType
                          /\ sts[k].value = e.value
                          /\ sts[k].gameTime = e.time

\* the stats of the ledger that an entry of the store's log can show
storeEntryAccepted(e, sts) ==
    \E k \in DOMAIN sts : /\ sts[k].playerId = e.playerId
                          /\ sts[k].statType = e.statType
                          /\ sts[k].value = e.value
                          /\ sts[k].gameTime = e.timestamp

\* C30: a record request that fails (the stat POST is rejected or errors)
\* leaves the client's per-player totals and activity log as they were,
\* both when it is sent and when its failure is handled, on the match page
\* and in the game store; every entry of either log shows a stat the server
\* accepted.
C30_FailedRecordChangesNothing ==
    [][/\ (StatClickUnanswered \/ recordStatOnError
             \/ RecordStatUnanswered \/ recordStatCatch)
           => UNCHANGED <<agGameStats, agActivityLogs, gameStats, activityLog>>
       /\ \A k \in DOMAIN agActivityLogs' : pageEntryAccepted(agActivityLogs'[k], stats')
       /\ \A k \in DOMAIN activityLog' : storeEntryAccepted(activityLog'[k], stats')]_vars

\* a failed request of the page is about to be handled while its log shows
\* an earlier record, and a failed request of the store is about to be
\* handled while the store holds loaded totals
C30_Witness ==
    /\ agRecording # NoRequest
    /\ ~apiRequestResolves(agRecording.status)
    /\ Len(agActivityLogs) > 0
    /\ recordInFlight # NoRequest
    /\ ~apiRequestResolves(recordInFlight.status)
    /\ gameStats # EmptyGameStats

====
